---- MODULE Spec2Model ----
(***************************************************************************)
(* Model of scripts/evaluate.py and scripts/plots.py of counting-sort-omp: *)
(* main() walks the output directory, calculate_means() reduces every CSV  *)
(* file to its robust column means, make_table() builds one table per      *)
(* scenario directory and hands it to write_table() and plot_table().      *)
(*                                                                         *)
(* Numbers.  my_round() keeps 5 decimals, so every time, speedup and       *)
(* efficiency the script stores is a multiple of 10^-5; the model holds    *)
(* them as integers counting that quantum (1.0 is Scale).  Unrounded       *)
(* values (a mean, a ratio) are exact fractions num/den, and the           *)
(* comparisons against mean -/+ std are made exactly, on squares.  The     *)
(* script computes in binary floating point, which agrees with the exact   *)
(* value except where the exact value sits on a threshold.  The inputs     *)
(* drawn stay off those thresholds: samples are multiples of 100 quanta    *)
(* (1 ms) and thread counts odd, so no mean or ratio lies half-way between *)
(* two quanta; and no sample lies exactly one standard deviation from the  *)
(* mean of its column, unless that deviation is 0 (one sample, or equal    *)
(* samples: then mean - std and mean + std both evaluate to the sample     *)
(* itself, and the strict comparisons drop it).                            *)
(*                                                                         *)
(* Text.  A file name or path is a sequence of one-character strings, so   *)
(* that index(), slicing, int(), endswith(), find() and sorted() are       *)
(* modelled by what they do to the characters.                             *)
(***************************************************************************)
EXTENDS Integers, Sequences, FiniteSets, TLC

\* ------------------------------------------------------------------ bounds
\* Problem sizes 1..MaxSize, optimisation levels 0..MaxOpt, at most MaxFiles
\* measure files in the output directory (Spec); at most MaxLen trial rows per
\* file, time_init samples 0..MaxSample milliseconds (SpecMeans).
MaxSize == 2
MaxOpt == 1
MaxFiles == 3
MaxLen == 4
MaxSample == 6

\* ------------------------------------------------------------- characters
Digit == <<"0", "1", "2", "3", "4", "5", "6", "7", "8", "9">>

IsDigit(c) == \E d \in 1..10 : Digit[d] = c

DigitValue(c) == (CHOOSE d \in 1..10 : Digit[d] = c) - 1

\* The code point Python compares strings by.
Ord(c) ==
    CASE c = "." -> 46
      [] c = "/" -> 47
      [] IsDigit(c) -> 48 + DigitValue(c)
      [] c = "O" -> 79
      [] c = "S" -> 83
      [] c = "T" -> 84
      [] c = "_" -> 95
      [] c = "a" -> 97
      [] c = "b" -> 98
      [] c = "c" -> 99
      [] c = "e" -> 101
      [] c = "f" -> 102
      [] c = "l" -> 108
      [] c = "o" -> 111
      [] c = "p" -> 112
      [] c = "s" -> 115
      [] c = "t" -> 116
      [] c = "u" -> 117
      [] c = "v" -> 118

\* a < b for two strings: the order sorted() puts them in.
RECURSIVE StrLess(_, _)
StrLess(a, b) ==
    IF b = <<>> THEN FALSE
    ELSE IF a = <<>> THEN TRUE
    ELSE IF Head(a) # Head(b) THEN Ord(Head(a)) < Ord(Head(b))
    ELSE StrLess(Tail(a), Tail(b))

\* sorted(list) of distinct strings.
RECURSIVE sorted(_)
sorted(S) ==
    IF S = {} THEN <<>>
    ELSE LET least == CHOOSE x \in S : \A y \in S \ {x} : StrLess(x, y)
         IN  <<least>> \o sorted(S \ {least})

\* s[at : at + len(sub)] == sub, positions counted from 1.
MatchesAt(s, sub, at) ==
    /\ at >= 1
    /\ at + Len(sub) - 1 <= Len(s)
    /\ SubSeq(s, at, at + Len(sub) - 1) = sub

\* str.index(c, start): the first position >= start holding c; NotFound where
\* Python raises ValueError.
NotFound == 0

index(s, c, start) ==
    LET hits == {p \in start..Len(s) : s[p] = c}
    IN  IF hits = {} THEN NotFound
        ELSE CHOOSE p \in hits : \A q \in hits : p <= q

\* str.find(sub) >= 0
find(s, sub) == \E at \in 1..Len(s) : MatchesAt(s, sub, at)

endswith(s, suffix) == MatchesAt(s, suffix, Len(s) - Len(suffix) + 1)

\* os.path.basename: what follows the last "/".
basename(p) ==
    LET slashes == {k \in 1..Len(p) : p[k] = "/"}
    IN  IF slashes = {} THEN p
        ELSE SubSeq(p, (CHOOSE k \in slashes : \A q \in slashes : q <= k) + 1, Len(p))

\* The directory part of a path (os.walk's root of the file).
dirname(p) ==
    LET slashes == {k \in 1..Len(p) : p[k] = "/"}
    IN  IF slashes = {} THEN <<>>
        ELSE SubSeq(p, 1, (CHOOSE k \in slashes : \A q \in slashes : q <= k) - 1)

\* int(text) of a digit string; ValueError where Python raises it (an empty
\* string, a character that is no digit).
ValueError == 0 - 1

RECURSIVE DigitsValue(_)
DigitsValue(s) ==
    IF s = <<>> THEN 0
    ELSE 10 * DigitsValue(SubSeq(s, 1, Len(s) - 1)) + DigitValue(s[Len(s)])

int(s) ==
    IF s = <<>> \/ \E k \in 1..Len(s) : ~IsDigit(s[k]) THEN ValueError
    ELSE DigitsValue(s)

\* The decimal digits of n >= 0, as measures are named.
RECURSIVE decimal(_)
decimal(n) ==
    IF n < 10 THEN <<Digit[n + 1]>>
    ELSE decimal(n \div 10) \o <<Digit[(n % 10) + 1]>>

\* ------------------------------------------------------------- file names
\* "Sxxxx_Tyy_Oz.csv"
FileName(size, threads, opt) ==
    <<"S">> \o decimal(size) \o <<"_", "T">> \o decimal(threads)
        \o <<"_", "O">> \o decimal(opt) \o <<".", "c", "s", "v">>

\* A name that does not follow the convention.
BadName == <<"f", "o", "o", ".", "c", "s", "v">>

\* The output's root directory and one scenario directory in it.
root_dir == <<"o", "u", "t">>

DirName(size, opt) ==
    root_dir \o <<"/", "s">> \o decimal(size) \o <<"_", "o", "p", "t", "_">>
        \o decimal(opt)

\* os.path.join / subdir + "/" + file
join(dir, name) == dir \o <<"/">> \o name

\* parse_file_name: (is_serial, size, num_threads, opt_lvl), or ok = FALSE
\* where one of the index() or int() calls raises ValueError.
parse_file_name(path) ==
    LET filename == basename(path)
        s_at == index(filename, "S", 1)
        size_start == s_at + 1
        size_end == index(filename, "_", size_start)
        size == int(SubSeq(filename, size_start, size_end - 1))
        t_at == index(filename, "T", 1)
        nt_start == t_at + 1
        nt_end == index(filename, "_", nt_start)
        num_threads == int(SubSeq(filename, nt_start, nt_end - 1))
        o_at == index(filename, "O", 1)
        ol_start == o_at + 1
        ol_end == index(filename, ".", ol_start)
        opt_lvl == int(SubSeq(filename, ol_start, ol_end - 1))
        raised ==
            \/ s_at = NotFound \/ size_end = NotFound \/ size = ValueError
            \/ t_at = NotFound \/ nt_end = NotFound \/ num_threads = ValueError
            \/ o_at = NotFound \/ ol_end = NotFound \/ opt_lvl = ValueError
    IN  IF raised
        THEN [ok |-> FALSE, is_serial |-> FALSE, size |-> 0, num_threads |-> 0,
              opt_lvl |-> 0]
        ELSE [ok |-> TRUE, is_serial |-> (num_threads = 0), size |-> size,
              num_threads |-> num_threads, opt_lvl |-> opt_lvl]

\* -------------------------------------------------------------- my_round
RoundDigits == 5

\* 1.0 in quanta of 10^-RoundDigits.
Scale == 10 ^ RoundDigits

\* my_round(num / den), in quanta, for num >= 0 and den > 0 given in quanta:
\* round(Decimal(x), 5) rounds to the nearest quantum, a tie to the even one.
my_round(num, den) ==
    LET q == num \div den
        r == num % den
    IN  IF 2 * r < den THEN q
        ELSE IF 2 * r > den THEN q + 1
        ELSE IF q % 2 = 0 THEN q ELSE q + 1

\* ------------------------------------------------------- calculate_means
columns == <<"time_init", "time_sort">>

RECURSIVE Sum(_)
Sum(data) == IF data = <<>> THEN 0 ELSE Head(data) + Sum(Tail(data))

RECURSIVE SumSquares(_)
SumSquares(data) ==
    IF data = <<>> THEN 0 ELSE Head(data) * Head(data) + SumSquares(Tail(data))

\* content[col]: one column of the CSV file.
column(content, col) == [r \in 1..Len(content) |-> content[r][col]]

\* norm.fit(data): the maximum-likelihood mean and standard deviation,
\* mean = sum / n and std = sqrt(dev2) / n with dev2 = n * sum(x^2) - sum^2
\* (the population variance is dev2 / n^2).
norm_fit(data) ==
    [n |-> Len(data), sum |-> Sum(data),
     dev2 |-> Len(data) * SumSquares(data) - Sum(data) * Sum(data)]

\* x > mean - std, i.e. sqrt(dev2) > sum - n * x
AboveLower(x, fit) ==
    LET gap == fit.sum - fit.n * x
    IN  gap < 0 \/ gap * gap < fit.dev2

\* x < mean + std, i.e. n * x - sum < sqrt(dev2)
BelowUpper(x, fit) ==
    LET gap == fit.n * x - fit.sum
    IN  gap < 0 \/ gap * gap < fit.dev2

\* The same selection with the bounds included, as the comment of the code
\* words it ("the range [mean - std, mean + std]").
TrimmedDataClosed(data) ==
    LET fit == norm_fit(data)
        inside(x) == (fit.sum - fit.n * x) * (fit.sum - fit.n * x) <= fit.dev2
    IN  SelectSeq(data, inside)

\* content[(content[col] > mean - std) & (content[col] < mean + std)][col]
TrimmedData(data) ==
    LET fit == norm_fit(data)
        inside(x) == AboveLower(x, fit) /\ BelowUpper(x, fit)
    IN  SelectSeq(data, inside)

\* The estimate without the second fit: the mean of the whole column.
RobustMeanNoRefit(data) ==
    IF Len(TrimmedData(data)) = 0 THEN my_round(my_round(0, 1), 1)
    ELSE my_round(Sum(data), Len(data))

\* The body of "for col in columns": the rounded mean of the retained samples,
\* 0.0 when none is retained.
RobustMean(data) ==
    LET curr_data == TrimmedData(data)
    IN  IF Len(curr_data) = 0 THEN my_round(my_round(0, 1), 1)
        ELSE my_round(Sum(curr_data), Len(curr_data))

\* A summary whose total is estimated on its own, from the per-trial sums.
file_mean_independent(content) ==
    LET total == [r \in 1..Len(content) |->
                    content[r]["time_init"] + content[r]["time_sort"]]
    IN  [time_init |-> RobustMean(column(content, "time_init")),
         time_sort |-> RobustMean(column(content, "time_sort")),
         time_elapsed |-> RobustMean(total)]

\* file_mean of one file: the two column means and their rounded sum.
file_mean(content) ==
    LET time_init == RobustMean(column(content, columns[1]))
        time_sort == RobustMean(column(content, columns[2]))
    IN  [time_init |-> time_init, time_sort |-> time_sort,
         time_elapsed |-> my_round(time_init + time_sort, 1)]

\* ------------------------------------------------------------ create_row
fields == <<"Type", "Size", "Threads", "Opt Lvl", "Time Init", "Time Sort",
            "Time Total", "Speedup", "Efficiency">>

\* fields.index(name), counted from 1.
Field(name) == CHOOSE k \in 1..Len(fields) : fields[k] = name

\* A row whose type forgets the optimisation level.
create_row_no_default(file, is_serial, size, num_threads, opt_lvl, means) ==
    <<IF is_serial THEN "Serial" ELSE "Parallel", size, num_threads, opt_lvl,
      means[file].time_init, means[file].time_sort, means[file].time_elapsed>>
        \o (IF is_serial THEN <<Scale, Scale>> ELSE <<>>)

\* The row of one file: 7 entries, and speedup = efficiency = 1 appended for
\* a serial measure; make_table appends the two of a parallel one.
create_row(file, is_serial, size, num_threads, opt_lvl, means) ==
    LET measure_type ==
            IF is_serial THEN (IF opt_lvl = 0 THEN "Default" ELSE "Serial")
            ELSE "Parallel"
    IN  <<measure_type, size, num_threads, opt_lvl,
          means[file].time_init, means[file].time_sort,
          means[file].time_elapsed>>
            \o (IF is_serial THEN <<Scale, Scale>> ELSE <<>>)

\* ----------------------------------------------------------------- plots
\* get_axes_data: the thread counts and the y_data of the Parallel rows, each
\* list starting with 0.
get_axes_data(rows, y_data) ==
    LET IsParallel(row) == row[Field("Type")] = "Parallel"
        parallel == SelectSeq(rows, IsParallel)
    IN  [x |-> <<0>> \o [p \in 1..Len(parallel) |-> parallel[p][Field("Threads")]],
         y |-> <<0>> \o [p \in 1..Len(parallel) |-> parallel[p][Field(y_data)]]]

plot_speedup(rows) == get_axes_data(rows, "Speedup")

\* y[0] = 1
plot_efficiency(rows) ==
    LET axes == get_axes_data(rows, "Efficiency")
    IN  [x |-> axes.x, y |-> [axes.y EXCEPT ![1] = Scale]]

plot_table(rows) ==
    [speedup |-> plot_speedup(rows), efficiency |-> plot_efficiency(rows)]

\* ------------------------------------------------------------------ state
VARIABLES
    pc,           \* where the script is: "main", "calculate_means",
                  \* "make_table" (between two subdirs), "scenario" (between two
                  \* files of one subdir), "done", "exit" (exit(1)), "error"
    err,          \* the exception that ended the run, "" when none
    fs,           \* the output directory: path of each CSV file -> its trial rows
    files,        \* main: the sorted list of measure files
    file_at,      \* calculate_means: position in files
    content,      \* calculate_means: the rows read from the current file
    all_means,    \* path -> file_mean
    subdirs,      \* make_table: the sorted subdirectories
    dir_at,       \* make_table: position in subdirs
    first_row,    \* make_table: the row of the default case, UnboundRow until set
    time_serial,  \* make_table: UnboundTime until a serial file is met
    rows,         \* make_table: the rows of the table being built
    curr_files,   \* make_table: the sorted files of the current subdir
    curr_at,      \* make_table: position in curr_files
    tables,       \* subdir -> the rows written to its table.csv
    plots         \* subdir -> the axes drawn in its two images

vars == <<pc, err, fs, files, file_at, content, all_means, subdirs, dir_at,
          first_row, time_serial, rows, curr_files, curr_at, tables, plots>>

\* A local variable that was never assigned.
UnboundRow == <<>>

UnboundTime == 0 - 1

EmptyMap == [f \in {} |-> 0]

\* ----------------------------------------------------------------- inputs
ThreadCounts == {0, 3}

\* The measure files a directory tree may hold: the single default measure of
\* each opt_0 directory; a serial measure, a parallel one and a misnamed file
\* in every other directory.
Universe ==
    {join(DirName(s, 0), FileName(s, 0, 0)) : s \in 1..MaxSize}
        \cup {join(DirName(s, o), FileName(s, t, o)) :
                s \in 1..MaxSize, o \in 1..MaxOpt, t \in ThreadCounts}
        \cup {join(DirName(s, o), BadName) : s \in 1..MaxSize, o \in 1..MaxOpt}

RECURSIVE SubsetsUpTo(_, _)
SubsetsUpTo(S, k) ==
    IF k = 0 \/ S = {} THEN {{}}
    ELSE LET x == CHOOSE y \in S : TRUE
         IN  SubsetsUpTo(S \ {x}, k)
                \cup {T \cup {x} : T \in SubsetsUpTo(S \ {x}, k - 1)}

Trial(init, sort) == [time_init |-> init, time_sort |-> sort]

\* The trial rows a measure file holds in Spec: a single trial, or three
\* trials, slower (means 0.002 + 0.002) in a serial measure than in a parallel
\* or a misnamed one (means 0.001 + 0.002).
OneTrial == <<Trial(500, 500)>>

SlowTrials == <<Trial(100, 100), Trial(200, 300), Trial(300, 200)>>

FastTrials == <<Trial(0, 100), Trial(100, 200), Trial(200, 300)>>

Measures == {OneTrial, SlowTrials, FastTrials}

MeasuresOf(path) ==
    IF basename(path) = BadName THEN {FastTrials}
    ELSE IF parse_file_name(path).is_serial THEN {OneTrial, SlowTrials}
    ELSE {OneTrial, FastTrials}

\* The output directories of Spec: at most MaxFiles files of Universe.
FileSystems ==
    UNION {{tree \in [F -> Measures] : \A p \in F : tree[p] \in MeasuresOf(p)} :
              F \in SubsetsUpTo(Universe, MaxFiles)}

\* The trial rows of SpecMeans: 1..MaxLen rows, time_init 0..MaxSample ms,
\* time_sort 1 or 3 ms, listed in non-decreasing order (no statistic of
\* calculate_means depends on the order of the rows).
TrialKinds ==
    [k \in 1..(2 * (MaxSample + 1)) |->
        Trial(100 * ((k - 1) \div 2), IF k % 2 = 1 THEN 100 ELSE 300)]

RECURSIVE Ascending(_, _)
Ascending(n, from) ==
    IF n = 0 THEN {<<>>}
    ELSE UNION {{<<k>> \o rest : rest \in Ascending(n - 1, k)} :
                    k \in from..Len(TrialKinds)}

\* A sample of the column lies exactly one standard deviation (not 0) from
\* the mean: whether the script retains it is decided by the rounding of its
\* floating-point mean and std.
OnBound(data) ==
    LET fit == norm_fit(data)
    IN  /\ fit.dev2 > 0
        /\ \E r \in 1..Len(data) :
              (fit.n * data[r] - fit.sum) * (fit.n * data[r] - fit.sum) = fit.dev2

Trials ==
    {rows_read \in
        {[r \in 1..Len(ks) |-> TrialKinds[ks[r]]] :
            ks \in UNION {Ascending(n, 1) : n \in 1..MaxLen}} :
        /\ ~OnBound(column(rows_read, "time_init"))
        /\ ~OnBound(column(rows_read, "time_sort"))}

MeansFile == join(DirName(1, 1), FileName(1, 0, 1))

\* ------------------------------------------------------------------- Init
InitLocals ==
    /\ pc = "main"
    /\ err = ""
    /\ files = <<>>
    /\ file_at = 1
    /\ content = <<>>
    /\ all_means = EmptyMap
    /\ subdirs = <<>>
    /\ dir_at = 1
    /\ first_row = UnboundRow
    /\ time_serial = UnboundTime
    /\ rows = <<>>
    /\ curr_files = <<>>
    /\ curr_at = 1
    /\ tables = EmptyMap
    /\ plots = EmptyMap

Init ==
    /\ fs \in FileSystems
    /\ InitLocals

InitMeans ==
    /\ fs \in [{MeansFile} -> Trials]
    /\ InitLocals

\* ------------------------------------------------------------------- main
\* os.walk: the files ending in ".csv" whose name does not contain "table".
FilesFound ==
    {f \in DOMAIN fs :
        endswith(basename(f), <<".", "c", "s", "v">>)
        /\ ~find(basename(f), <<"t", "a", "b", "l", "e">>)}

\* "No output files found. Exiting the script."
Main_NoFiles ==
    /\ pc = "main"
    /\ FilesFound = {}
    /\ pc' = "exit"
    /\ UNCHANGED <<err, fs, files, file_at, content, all_means, subdirs, dir_at,
                   first_row, time_serial, rows, curr_files, curr_at, tables,
                   plots>>

Main_Walk ==
    /\ pc = "main"
    /\ FilesFound # {}
    /\ files' = sorted(FilesFound)
    /\ file_at' = 1
    /\ pc' = "calculate_means"
    /\ UNCHANGED <<err, fs, content, all_means, subdirs, dir_at, first_row,
                   time_serial, rows, curr_files, curr_at, tables, plots>>

\* One turn of "for file in files" of calculate_means.
CalculateMeans_File ==
    /\ pc = "calculate_means"
    /\ file_at <= Len(files)
    /\ content' = fs[files[file_at]]
    /\ all_means' = (files[file_at] :> file_mean(content')) @@ all_means
    /\ file_at' = file_at + 1
    /\ UNCHANGED <<pc, err, fs, files, subdirs, dir_at, first_row, time_serial,
                   rows, curr_files, curr_at, tables, plots>>

\* calculate_means returns; make_table starts: rows = [], subdirs sorted.
\* Every subdirectory of root_dir holds at least one measure file.
MakeTable_Enter ==
    /\ pc = "calculate_means"
    /\ file_at > Len(files)
    /\ rows' = <<>>
    /\ subdirs' = sorted({dirname(f) : f \in DOMAIN fs})
    /\ dir_at' = 1
    /\ pc' = "make_table"
    /\ UNCHANGED <<err, fs, files, file_at, content, all_means, first_row,
                   time_serial, curr_files, curr_at, tables, plots>>

\* ------------------------------------------------------------- make_table
subdir == subdirs[dir_at]

\* os.listdir(subdir): the names in the directory, in no particular order.
listdir(dir) == {basename(f) : f \in {g \in DOMAIN fs : dirname(g) = dir}}

IsDefaultDir(dir) == endswith(dir, <<"o", "p", "t", "_", "0">>)

\* [f for f in files if f.find(subdir + "/") >= 0]
FilesOf(dir) ==
    {files[k] : k \in {n \in 1..Len(files) : find(files[n], dir \o <<"/">>)}}

\* write_table: the rows of the table, as table.csv holds them.
write_table(table_rows) == table_rows

Raise(exception) ==
    /\ pc' = "error"
    /\ err' = exception
    /\ UNCHANGED <<fs, files, file_at, content, all_means, subdirs, dir_at,
                   first_row, time_serial, rows, curr_files, curr_at, tables,
                   plots>>

\* "if subdir.endswith("opt_0")": the row of its file becomes first_row, and
\* the loop continues with the next subdir.
MakeTable_DefaultDir ==
    /\ pc = "make_table"
    /\ dir_at <= Len(subdirs)
    /\ IsDefaultDir(subdir)
    /\ \E file \in listdir(subdir) :
         LET info == parse_file_name(file)
         IN  IF ~info.ok THEN Raise("ValueError")
             ELSE IF join(subdir, file) \notin DOMAIN all_means
             THEN Raise("KeyError")
             ELSE /\ first_row' = create_row(join(subdir, file), info.is_serial,
                                             info.size, info.num_threads,
                                             info.opt_lvl, all_means)
                  /\ dir_at' = dir_at + 1
                  /\ UNCHANGED <<pc, err, fs, files, file_at, content, all_means,
                                 subdirs, time_serial, rows, curr_files, curr_at,
                                 tables, plots>>

\* rows.append(first_row) before any opt_0 directory was met.
MakeTable_NoFirstRow ==
    /\ pc = "make_table"
    /\ dir_at <= Len(subdirs)
    /\ ~IsDefaultDir(subdir)
    /\ first_row = UnboundRow
    /\ Raise("UnboundLocalError: first_row")

\* rows.append(first_row); curr_files = sorted(...)
MakeTable_BeginScenario ==
    /\ pc = "make_table"
    /\ dir_at <= Len(subdirs)
    /\ ~IsDefaultDir(subdir)
    /\ first_row # UnboundRow
    /\ rows' = Append(rows, first_row)
    /\ curr_files' = sorted(FilesOf(subdir))
    /\ curr_at' = 1
    /\ pc' = "scenario"
    /\ UNCHANGED <<err, fs, files, file_at, content, all_means, subdirs, dir_at,
                   first_row, time_serial, tables, plots>>

file == curr_files[curr_at]

AtFile ==
    /\ pc = "scenario"
    /\ curr_at <= Len(curr_files)

\* parse_file_name(file) raises.
MakeTable_MalformedName ==
    /\ AtFile
    /\ ~parse_file_name(file).ok
    /\ Raise("ValueError")

\* A serial file: its row is complete, and its time becomes time_serial.
MakeTable_SerialFile ==
    /\ AtFile
    /\ LET info == parse_file_name(file)
       IN  /\ info.ok
           /\ info.is_serial
           /\ time_serial' = all_means[file].time_elapsed
           /\ rows' = Append(rows, create_row(file, info.is_serial, info.size,
                                              info.num_threads, info.opt_lvl,
                                              all_means))
    /\ curr_at' = curr_at + 1
    /\ UNCHANGED <<pc, err, fs, files, file_at, content, all_means, subdirs,
                   dir_at, first_row, curr_files, tables, plots>>

\* A parallel file while time_serial was never assigned.
MakeTable_NoTimeSerial ==
    /\ AtFile
    /\ parse_file_name(file).ok
    /\ ~parse_file_name(file).is_serial
    /\ time_serial = UnboundTime
    /\ Raise("UnboundLocalError: time_serial")

\* time_serial / time_parallel with time_parallel = 0.0
MakeTable_ZeroDivision ==
    /\ AtFile
    /\ parse_file_name(file).ok
    /\ ~parse_file_name(file).is_serial
    /\ time_serial # UnboundTime
    /\ all_means[file].time_elapsed = 0
    /\ Raise("ZeroDivisionError")

\* A parallel file: speedup and efficiency are appended to its row.
MakeTable_ParallelFile ==
    /\ AtFile
    /\ LET info == parse_file_name(file)
           time_parallel == all_means[file].time_elapsed
           speedup == my_round(time_serial * Scale, time_parallel)
           efficiency == my_round(speedup, info.num_threads)
       IN  /\ info.ok
           /\ ~info.is_serial
           /\ time_serial # UnboundTime
           /\ time_parallel # 0
           /\ rows' = Append(rows,
                             create_row(file, info.is_serial, info.size,
                                        info.num_threads, info.opt_lvl, all_means)
                                 \o <<speedup, efficiency>>)
    /\ curr_at' = curr_at + 1
    /\ UNCHANGED <<pc, err, fs, files, file_at, content, all_means, subdirs,
                   dir_at, first_row, time_serial, curr_files, tables, plots>>

\* write_table(fields, rows, subdir); plot_table(subdir, fields, rows);
\* rows.clear()
MakeTable_EndScenario ==
    /\ pc = "scenario"
    /\ curr_at > Len(curr_files)
    /\ tables' = (subdir :> write_table(rows)) @@ tables
    /\ plots' = (subdir :> plot_table(rows)) @@ plots
    /\ rows' = <<>>
    /\ dir_at' = dir_at + 1
    /\ pc' = "make_table"
    /\ UNCHANGED <<err, fs, files, file_at, content, all_means, subdirs,
                   first_row, time_serial, curr_files, curr_at>>

MakeTable_Return ==
    /\ pc = "make_table"
    /\ dir_at > Len(subdirs)
    /\ pc' = "done"
    /\ UNCHANGED <<err, fs, files, file_at, content, all_means, subdirs, dir_at,
                   first_row, time_serial, rows, curr_files, curr_at, tables,
                   plots>>

Next ==
    \/ Main_NoFiles
    \/ Main_Walk
    \/ CalculateMeans_File
    \/ MakeTable_Enter
    \/ MakeTable_DefaultDir
    \/ MakeTable_NoFirstRow
    \/ MakeTable_BeginScenario
    \/ MakeTable_MalformedName
    \/ MakeTable_SerialFile
    \/ MakeTable_NoTimeSerial
    \/ MakeTable_ZeroDivision
    \/ MakeTable_ParallelFile
    \/ MakeTable_EndScenario
    \/ MakeTable_Return

Spec == Init /\ [][Next]_vars

\* calculate_means alone, on one file.
NextMeans ==
    \/ Main_Walk
    \/ CalculateMeans_File

SpecMeans == InitMeans /\ [][NextMeans]_vars

\* ----------------------------------------------------------------- claims
Stopped == pc \in {"done", "error"}

\* The scenario directories of the output directory: all but the opt_0 ones.
Dirs == {dirname(f) : f \in DOMAIN fs}

ScenarioDirs == {d \in Dirs : ~IsDefaultDir(d)}

\* The row create_row is documented to build for the default measure of a size.
DefaultFile(size) == join(DirName(size, 0), FileName(size, 0, 0))

DefaultRowOf(size) ==
    <<"Default", size, 0, 0, all_means[DefaultFile(size)].time_init,
      all_means[DefaultFile(size)].time_sort,
      all_means[DefaultFile(size)].time_elapsed, Scale, Scale>>

Max(S) == CHOOSE x \in S : \A y \in S : y <= x

\* C1: the first row of every table written equals, by value, the default row
\* of the problem size of that table's directory (the row of the opt_0
\* directory of the same size); it is never the default row of another size.
C1_FirstRowIsDefaultOfSameSize ==
    \A s \in 1..MaxSize, o \in 1..MaxOpt :
        DirName(s, o) \in DOMAIN tables =>
            /\ DefaultFile(s) \in DOMAIN all_means
            /\ tables[DirName(s, o)][1] = DefaultRowOf(s)

\* C2: in every table written, each Parallel row follows a Serial row of the
\* same table, and with t the time_elapsed of the nearest such row its speedup
\* is round5(t / time_elapsed) and its efficiency round5(speedup / threads).
C2_SpeedupFromSerialRowOfSameScenario ==
    \A d \in DOMAIN tables :
      \A p \in 1..Len(tables[d]) :
        LET t == tables[d]
            serial == {q \in 1..(p - 1) : t[q][Field("Type")] = "Serial"}
        IN  t[p][Field("Type")] = "Parallel" =>
              /\ serial # {}
              /\ t[p][Field("Speedup")] =
                    my_round(t[Max(serial)][Field("Time Total")] * Scale,
                             t[p][Field("Time Total")])
              /\ t[p][Field("Efficiency")] =
                    my_round(t[p][Field("Speedup")], t[p][Field("Threads")])

\* C3: a Parallel file met before any Serial file of the current directory
\* makes the step fail with the missing-baseline error, whatever earlier
\* directories held: no Parallel row is ever appended to the rows of a
\* scenario unless a Serial row of that same scenario precedes it.
C3_ParallelRowNeedsSerialOfScenario ==
    \A p \in 1..Len(rows) :
        rows[p][Field("Type")] = "Parallel" =>
            \E q \in 1..(p - 1) : rows[q][Field("Type")] = "Serial"

\* A scenario directory none of whose files can fail: every name parses, a
\* serial file sorts before every parallel one, no parallel time is 0.
Healthy(d) ==
    LET in_dir == sorted(FilesOf(d))
    IN  \A k \in 1..Len(in_dir) :
          LET info == parse_file_name(in_dir[k])
          IN  /\ info.ok
              /\ ~info.is_serial =>
                    /\ \E q \in 1..(k - 1) : parse_file_name(in_dir[q]).is_serial
                    /\ all_means[in_dir[k]].time_elapsed # 0

\* C4: a malformed file name or a Parallel file without a preceding Serial
\* file does not abort the run: once the run has stopped, every other scenario
\* directory, those sorted after the failing one included, has its table.
C4_FailureDoesNotAbortRun ==
    (pc = "error" /\ err \in {"ValueError", "UnboundLocalError: time_serial"}) =>
        \A k \in 1..Len(subdirs) :
            (k # dir_at /\ subdirs[k] \in ScenarioDirs /\ Healthy(subdirs[k]))
                => subdirs[k] \in DOMAIN tables

\* C5: for every file summarized, time_elapsed is round5(time_init +
\* time_sort) of the file's own two robust column means, also when a mean is
\* the degenerate 0.0; it is not an estimate made from the samples.
C5_ElapsedIsRoundedSum ==
    \A f \in DOMAIN all_means :
        /\ all_means[f].time_init = RobustMean(column(fs[f], "time_init"))
        /\ all_means[f].time_sort = RobustMean(column(fs[f], "time_sort"))
        /\ all_means[f].time_elapsed =
              my_round(all_means[f].time_init + all_means[f].time_sort, 1)

\* The estimate of the total made on its own, from the per-trial totals.
IndependentElapsed(f) ==
    RobustMean([r \in 1..Len(fs[f]) |-> fs[f][r].time_init + fs[f][r].time_sort])

C5_Witness ==
    \E f \in DOMAIN all_means :
        /\ all_means[f].time_init > 0
        /\ all_means[f].time_sort > 0
        /\ IndependentElapsed(f) # all_means[f].time_elapsed

\* The samples of a column strictly inside (m - s, m + s), m and s the mean
\* and the population standard deviation of the column: (x - m)^2 < s^2,
\* both sides multiplied by n^2.
StrictlyInside(data) ==
    LET n == Len(data)
        within(x) ==
            (n * x - Sum(data)) * (n * x - Sum(data))
                < n * SumSquares(data) - Sum(data) * Sum(data)
    IN  SelectSeq(data, within)

AllEqual(data) == \A a, b \in 1..Len(data) : data[a] = data[b]

RowsOf(table_rows) == {table_rows[k] : k \in 1..Len(table_rows)}

AllRows ==
    (IF first_row = UnboundRow THEN {} ELSE {first_row})
        \cup RowsOf(rows)
        \cup UNION {RowsOf(tables[d]) : d \in DOMAIN tables}

\* C8: a row has type Default iff its file is serial with opt_level 0, Serial
\* iff it is serial with opt_level > 0, Parallel otherwise, serial meaning
\* thread_count = 0 in the file's name; a Default or Serial row has speedup =
\* efficiency = 1, a Parallel row a thread_count other than 0.
C8_RowTypes ==
    /\ \A row \in AllRows :
         /\ row[Field("Type")] = "Default"
               <=> (row[Field("Threads")] = 0 /\ row[Field("Opt Lvl")] = 0)
         /\ row[Field("Type")] = "Serial"
               <=> (row[Field("Threads")] = 0 /\ row[Field("Opt Lvl")] > 0)
         /\ row[Field("Type")] = "Parallel" <=> row[Field("Threads")] # 0
         /\ row[Field("Type")] \in {"Default", "Serial"} =>
               /\ Len(row) = Len(fields)
               /\ row[Field("Speedup")] = Scale
               /\ row[Field("Efficiency")] = Scale
    /\ \A d \in DOMAIN tables :
         \A k \in 1..(Len(tables[d]) - 1) :
            \E s \in 1..MaxSize, o \in 0..MaxOpt, t \in ThreadCounts :
                /\ sorted(FilesOf(d))[k] = join(d, FileName(s, t, o))
                /\ SubSeq(tables[d][k + 1], 2, 4) = <<s, t, o>>

C8_Witness ==
    \E d \in DOMAIN tables :
        /\ tables[d][1][Field("Type")] = "Default"
        /\ \E k \in 1..Len(tables[d]) : tables[d][k][Field("Type")] = "Serial"
        /\ \E k \in 1..Len(tables[d]) : tables[d][k][Field("Type")] = "Parallel"

\* The rows the table of scenario directory d is to hold after the default
\* row: one per file of d, in sorted order of the names.
RowMatchesFile(row, path) ==
    LET info == parse_file_name(path)
    IN  /\ info.ok
        /\ SubSeq(row, 2, 7) =
              <<info.size, info.num_threads, info.opt_lvl,
                all_means[path].time_init, all_means[path].time_sort,
                all_means[path].time_elapsed>>

\* C9: when make_table has stopped, no table was written for an opt_0
\* directory and one for every other directory: the default row, then one row
\* per file of the directory in sorted order, and no row of an earlier one.
C9_OneTablePerScenario ==
    Stopped =>
        \A d \in Dirs :
            IF IsDefaultDir(d) THEN d \notin DOMAIN tables
            ELSE /\ d \in DOMAIN tables
                 /\ Len(tables[d]) = 1 + Cardinality(FilesOf(d))
                 /\ tables[d][1][Field("Type")] = "Default"
                 /\ \A k \in 1..Cardinality(FilesOf(d)) :
                       RowMatchesFile(tables[d][k + 1], sorted(FilesOf(d))[k])

\* C10: the divisor of the speedup, the time_elapsed of the Parallel file, is
\* never 0: make_table never stops on a division by zero.
C10_NoDivisionByZero ==
    ~(pc = "error" /\ err = "ZeroDivisionError")

====
